---- MODULE Spec2Model ----
(***************************************************************************)
(* A model of src/hubspot/controllers.js: the recent-contacts pagination   *)
(* loop (loopContacts and the functions it calls) and the deal resolver    *)
(* (getDealsFromContact).  Every await of the source is a point where the  *)
(* model hands control to the environment: the HubSpot API answers (or     *)
(* fails) in an action of its own, and the synchronous code that runs      *)
(* between two awaits is one action.                                       *)
(***************************************************************************)
EXTENDS Integers, Sequences, FiniteSets, TLC

(***************************************************************************)
(* Bounds and data domains of the model.                                   *)
(***************************************************************************)
\* The upstream listing of a run holds at most MaxPages pages: its last page
\* reports has-more = false.
MaxPages == 2
\* The upstream catalog of a deal resolution holds at most MaxDeals
\* associated deals.
MaxDeals == 2

\* JavaScript null for the numeric parameters (the defaults of lines 330-333).
NULL == -1

\* The contacts of the upstream CRM are 1..MaxVid.
MaxVid == 2
\* The page size getContacts asks for (count=100 at line 119), scaled down.
COUNT == 2

Runs == {1, 2}
VIDs == 1..MaxVid
\* Two instants: one at or before the time stop a caller may pass, one after.
Times == {1, 2}
\* Cursor components a caller may pass: null, zero, or a positive offset.
CallerOffsets == {NULL, 0, 1}
StopVids == {NULL} \cup VIDs
StopTimes == {NULL, 1}

\* JavaScript undefined where a string is expected.
Undefined == "undefined"

(***************************************************************************)
(* URLs.  A URL is a record: an absolute URL carries its host and its      *)
(* query string as a sequence of name/value pairs (the order of the text); *)
(* "malformed" is a string new URL() rejects; "undefined" is an absent     *)
(* candidate.                                                              *)
(***************************************************************************)
NoUrl == [kind |-> "undefined"]
BadUrl == [kind |-> "malformed"]
Url(host, path, query) == [kind |-> "url", host |-> host, path |-> path, query |-> query]
Param(n, v) == [name |-> n, value |-> v]

EmptyMap == [k \in {} |-> Undefined]

\* {...a, ...b}: the keys of both, b's value winning on a collision.
Spread(a, b) == b @@ a

\* obj[key] of a JavaScript object: undefined when the key is absent.
Get(obj, key) == IF key \in DOMAIN obj THEN obj[key] ELSE Undefined

\* helpers.getURLParams: the query parameters of a URL as an object, a later
\* occurrence of a name replacing an earlier one; never throws, and gives the
\* empty object for an absent or unparseable URL.
RECURSIVE ParamsOf(_)
ParamsOf(query) ==
  IF query = <<>> THEN EmptyMap
  ELSE LET n == Len(query)
       IN Spread(ParamsOf(SubSeq(query, 1, n - 1)), (query[n].name :> query[n].value))

getURLParams(lp) == IF lp.kind = "url" THEN ParamsOf(lp.query) ELSE EmptyMap

\* helpers.getHostName: the hostname of a URL.
getHostName(url) == IF url.kind = "url" THEN url.host ELSE Undefined

\* The institution table of formatContact.
INSTITUTIONS ==
  ("br.digitalmarketinginstitute.com" :> "DMI") @@
  ("dmi.espm.br" :> "ESPM") @@
  ("gestaopublica.fecap.br" :> "Fecap") @@
  ("posead.institutosingularidades.edu.br" :> "Singularidades") @@
  ("cursopos.com" :> "FAT")

INSTAGRAM_REFERRER == Url("instagram.com", "/", <<>>)

(***************************************************************************)
(* formattedDate: DD/MM/YYYY - HH:mm.  The finest field is the minute, so  *)
(* two timestamps of the same minute format alike.  A model timestamp      *)
(* counts half minutes.                                                    *)
(***************************************************************************)
formattedDate(date) == [format |-> "DD/MM/YYYY - HH:mm", minute |-> date \div 2]

\* The hs_url template of formatContact.
HsUrl(vid) == [template |-> "https://app.hubspot.com/contacts/6331207/contact/", vid |-> vid]

(***************************************************************************)
(* formatContact.  A contact is [vid, properties, form_submissions,        *)
(* addedAt]; properties maps the names HubSpot returned to [value |-> v].  *)
(***************************************************************************)
\* The property reads that throw a TypeError: hs_analytics_source is read
\* unconditionally.
formatContactThrows(contact) == "hs_analytics_source" \notin DOMAIN contact.properties

\* JavaScript truthiness of a URL-valued slot.
TruthyUrl(u) == u.kind # "undefined"

\* Object.prototype, as far as a hostname can name one of its properties: a
\* lookup on an object literal falls back on it.
ObjectPrototype == ("constructor" :> "[Function: Object]")

\* obj[key] of an object literal, the prototype chain included.
Lookup(obj, key) == IF key \in DOMAIN obj THEN obj[key] ELSE Get(ObjectPrototype, key)

\* Lines 238-245 with the spread reversed: an earlier candidate wins.
QueryParams_firstWins(landingPageUrls) ==
  LET Merge[i \in 0..Len(landingPageUrls)] ==
        IF i = 0 THEN EmptyMap
        ELSE Spread(getURLParams(landingPageUrls[i]), Merge[i - 1])
  IN Merge[Len(landingPageUrls)]

\* Lines 238-245: the forEach that spreads every candidate's parameters over
\* queryParams.
QueryParams(landingPageUrls) ==
  LET Merge[i \in 0..Len(landingPageUrls)] ==
        IF i = 0 THEN EmptyMap
        ELSE Spread(Merge[i - 1], getURLParams(landingPageUrls[i]))
  IN Merge[Len(landingPageUrls)]

\* Line 257: the institution of the last-touch URL's hostname.
Institution(props) ==
  IF "hs_analytics_last_url" \in DOMAIN props
  THEN Lookup(INSTITUTIONS, getHostName(props["hs_analytics_last_url"].value))
  ELSE Undefined

\* The utm_source field written after the Instagram exception.
SourceField_afterOverride(source, overridden) == overridden

\* Line 271: utm_source is written from source as it stands before the
\* exceptions of lines 278-296.
SourceField(source, overridden) == source

\* Lines 278-284: the Instagram exception, on the local source.
InstagramException(source, props) ==
  IF /\ source = "facebook"
     /\ "hs_analytics_first_referrer" \in DOMAIN props
     /\ props["hs_analytics_first_referrer"].value = INSTAGRAM_REFERRER
  THEN "instagram"
  ELSE source

\* The LinkedIn exception without its test of the source.
LinkedinException_anySource(source, props, formattedContact) ==
  IF "first_conversion_event_name" \in DOMAIN props
  THEN Spread(formattedContact, ("ad" :> props["first_conversion_event_name"].value))
  ELSE formattedContact

\* Lines 287-296: the LinkedIn exception.
LinkedinException(source, props, formattedContact) ==
  IF source = "linkedin" /\ "first_conversion_event_name" \in DOMAIN props
  THEN Spread(formattedContact, ("ad" :> props["first_conversion_event_name"].value))
  ELSE formattedContact

formatContact(contact) ==
  LET props == contact.properties
      Has(p) == p \in DOMAIN props
      ValueOr(p) == IF Has(p) THEN props[p].value ELSE NoUrl
      template ==
        [id |-> contact.vid,
         analytics_source |-> props["hs_analytics_source"].value,
         hs_url |-> HsUrl(contact.vid),
         addedAt |-> formattedDate(contact.addedAt)]
      form_submission_page ==
        IF Len(contact.form_submissions) > 0
        THEN contact.form_submissions[1].page_url
        ELSE NoUrl
      landingPageUrls ==
        << ValueOr("hs_analytics_first_url"),
           ValueOr("hs_analytics_last_url"),
           ValueOr("hs_analytics_first_referrer"),
           ValueOr("hs_analytics_last_referrer"),
           form_submission_page >>
      queryParams == QueryParams(landingPageUrls)
      institution == Institution(props)
      source == Get(queryParams, "utm_source")
      overridden == InstagramException(source, props)
      hsa_grp ==
        IF Get(queryParams, "hsa_grp") \notin {Undefined, ""}
        THEN Get(queryParams, "hsa_grp")
        ELSE Get(queryParams, "ad_group")
      populated ==
        Spread(template,
               [institution |-> institution,
                utm_source |-> SourceField(source, overridden),
                utm_campaign |-> Get(queryParams, "utm_campaign"),
                hsa_grp |-> hsa_grp,
                utm_content |-> Get(queryParams, "utm_content")])
  IN IF \/ Has("hs_analytics_first_url")
        \/ Has("hs_analytics_last_url")
        \/ Has("hs_analytics_first_referrer")
        \/ Has("hs_analytics_last_referrer")
        \/ TruthyUrl(form_submission_page)
     THEN LinkedinException(overridden, props, populated)
     ELSE template

\* sheets.formatContactForGoogleSheet: the row of a formatted contact, its
\* values in the fixed column order of the destination, an absent key giving
\* an undefined cell.
SheetColumns == <<"id", "addedAt", "institution", "utm_source", "utm_campaign", "hsa_grp", "utm_content", "ad">>
formatContactForGoogleSheet(entry) == [i \in 1..Len(SheetColumns) |-> Get(entry, SheetColumns[i])]

(***************************************************************************)
(* The upstream CRM.  What the batch endpoint returns for a vid is one of  *)
(* two records: the contact as stored ("good": its attribution properties  *)
(* depend on the vid), or a record without the hs_analytics_source         *)
(* property ("bad"), which formatContact cannot format.                    *)
(***************************************************************************)
Variants == {"good", "bad"}

CrmProperties(vid) ==
  IF vid % 2 = 1
  THEN [hs_analytics_source |-> [value |-> "PAID_SOCIAL"],
        hs_analytics_first_url |->
          [value |-> Url("cursopos.com", "/", <<Param("utm_source", "facebook"), Param("ad_group", "g1")>>)],
        hs_analytics_last_url |->
          [value |-> Url("dmi.espm.br", "/lp", <<Param("utm_source", "linkedin"), Param("utm_campaign", "c1")>>)],
        first_conversion_event_name |-> [value |-> "form-a"]]
  ELSE [hs_analytics_source |-> [value |-> "OFFLINE"]]

CrmForms(vid) ==
  IF vid % 2 = 1
  THEN << [page_url |-> Url("dmi.espm.br", "/form", <<Param("utm_content", "x")>>)] >>
  ELSE << >>

CrmContact(vid, variant) ==
  [vid |-> vid,
   properties |-> IF variant = "good" THEN CrmProperties(vid) ELSE [first_conversion_event_name |-> [value |-> "form-b"]],
   form_submissions |-> CrmForms(vid)]

\* The pages the listing endpoint may return: at most COUNT summaries with
\* distinct vids, newest first (the API lists in reverse chronological order).
RECURSIVE SeqsOver(_, _)
SeqsOver(S, n) ==
  IF n = 0 THEN {<<>>}
  ELSE LET shorter == SeqsOver(S, n - 1)
       IN shorter \cup {Append(q, x) : q \in {t \in shorter : Len(t) = n - 1}, x \in S}

Summaries == [vid : VIDs, addedAt : Times]

PageContents ==
  {p \in SeqsOver(Summaries, COUNT) :
     /\ \A i, j \in 1..Len(p) : i # j => p[i].vid # p[j].vid
     /\ \A i \in 1..Len(p) - 1 :
          \/ p[i].addedAt > p[i + 1].addedAt
          \/ p[i].addedAt = p[i + 1].addedAt /\ p[i].vid > p[i + 1].vid}

\* The cursor of a page is the position of its last record (0, 0 for an
\* empty page).
PageData(p, more) ==
  [contacts |-> p,
   has_more |-> more,
   vid_offset |-> IF p = <<>> THEN 0 ELSE p[Len(p)].vid,
   time_offset |-> IF p = <<>> THEN 0 ELSE p[Len(p)].addedAt]

NoData == PageData(<<>>, FALSE)

\* The responses of the batch endpoint: an object keyed by vid.
DetailResponses == UNION {[keys -> Variants] : keys \in SUBSET VIDs}

(***************************************************************************)
(* The contacts formatContact is applied to on its own: every combination  *)
(* of the properties it reads.                                             *)
(***************************************************************************)
\* The values an analytics URL property or a referrer may hold: landing
\* pages of listed institutions, the Instagram referrer, pages of hosts the
\* table does not list, and a string that is no URL.
SampleUrls ==
  { Url("cursopos.com", "/", <<Param("utm_source", "facebook"), Param("ad_group", "g1")>>),
    Url("dmi.espm.br", "/lp",
        <<Param("utm_source", "linkedin"), Param("utm_campaign", "c1"), Param("hsa_grp", "h1")>>),
    INSTAGRAM_REFERRER,
    Url("example.org", "/", <<Param("utm_source", "google"), Param("utm_content", "x")>>),
    Url("constructor", "/", <<Param("utm_campaign", "c2")>>) }

\* A candidate slot: absent, a URL, or a string that does not parse.
Candidates == {NoUrl, BadUrl} \cup SampleUrls

\* The last-touch URL, whose hostname is read: absent or a URL.
LastUrls == {NoUrl} \cup SampleUrls

\* form-submissions: none, one without a page-url, or one with a page-url.
FormSubmissions ==
  { << >>,
    << [page_url |-> NoUrl] >>,
    << [page_url |-> Url("dmi.espm.br", "/form", <<Param("utm_source", "facebook"), Param("utm_content", "y")>>)] >> }

\* A property HubSpot returns only when it has a value.
Property(name, present, v) == IF present THEN (name :> [value |-> v]) ELSE EmptyMap

ContactDetail(hasSource, firstUrl, lastUrl, firstReferrer, lastReferrer, forms, hasEvent) ==
  [vid |-> 1,
   properties |->
     Property("hs_analytics_source", hasSource, "PAID_SOCIAL")
     @@ Property("hs_analytics_first_url", firstUrl # NoUrl, firstUrl)
     @@ Property("hs_analytics_last_url", lastUrl # NoUrl, lastUrl)
     @@ Property("hs_analytics_first_referrer", firstReferrer # NoUrl, firstReferrer)
     @@ Property("hs_analytics_last_referrer", lastReferrer # NoUrl, lastReferrer)
     @@ Property("first_conversion_event_name", hasEvent, "form-a"),
   form_submissions |-> forms,
   addedAt |-> 1]

ContactDetails ==
  { ContactDetail(hasSource, firstUrl, lastUrl, firstReferrer, lastReferrer, forms, hasEvent) :
      hasSource \in BOOLEAN, firstUrl \in Candidates, lastUrl \in LastUrls,
      firstReferrer \in Candidates, lastReferrer \in Candidates,
      forms \in FormSubmissions, hasEvent \in BOOLEAN }

\* The argument of formatContact while it is not being called.
NoContact == ContactDetail(TRUE, NoUrl, NoUrl, NoUrl, NoUrl, << >>, FALSE)

(***************************************************************************)
(* The state.                                                              *)
(***************************************************************************)
VARIABLES
  active,        \* the runs of loopContacts the caller started
  upstreamPages, \* how many pages the listing holds for each run
  pc,            \* where each run stands: its pending await, or "done"
  frame,         \* the arguments of the run's innermost loopContacts call
  contactsData,  \* the page the run's last getContacts returned
  detailReq,     \* the vids of the run's last batch request (vidsParam)
  detailKeys,    \* the keys of the last batch response the run received
  detailed,      \* contactsDetailedInfo: what getContactsDetailedInfo gave
  contacts,      \* the accumulator passed down the recursion
  result,        \* what the outermost call returned
  nreq,          \* listing requests the run has issued
  lastRequest,   \* pagination fields of the run's last listing request
  retainedLog,   \* newContacts of every page the run has sunk, in order
  failed,        \* the step at which the run threw, "none" otherwise
  contact,       \* the module-level variable of line 162
  appendLog,     \* the calls of sheets.appendToSheet, in call order
  delivered,     \* indices of appendLog whose request has completed, in
                 \* completion order
  dpc,           \* getDealsFromContact: its pending await, or "done"
  dealIds,       \* the association lookup's results
  pipelines,     \* the pipeline catalog
  deals,         \* the deals array
  dealIdx,       \* the loop's position in dealIds
  dealsResult,   \* what getDealsFromContact returned
  dealsFailed,   \* the step at which the resolution threw, "none" otherwise
  dealCalls,     \* the HubSpot calls of the resolution, in issue order
  fmtPc,         \* formatContact called on its own: "idle", "call",
                 \* "returned" or "threw"
  fmtContact,    \* its argument
  fmtResult      \* the record it returned

loopVars ==
  <<active, upstreamPages, pc, frame, contactsData, detailReq, detailKeys, detailed, contacts, result, nreq,
    lastRequest, retainedLog, failed, contact, appendLog, delivered>>
dealVars == <<dpc, dealIds, pipelines, deals, dealIdx, dealsResult, dealsFailed, dealCalls>>
fmtVars == <<fmtPc, fmtContact, fmtResult>>
vars == <<loopVars, dealVars, fmtVars>>

\* A value that is either undefined or a sequence.
Undef == [defined |-> FALSE, list |-> <<>>]
Def(list) == [defined |-> TRUE, list |-> list]

\* The module-level contact before any join, and after a find() that
\* matched nothing.
UndefinedContact == [vid |-> NULL, addedAt |-> NULL]

(***************************************************************************)
(* getContacts: the pagination fields of the request.  A component is sent *)
(* when it is truthy.                                                      *)
(***************************************************************************)
Truthy(n) == n # NULL /\ n # 0

Pagination(vidOffset, timeOffset) ==
  (IF Truthy(vidOffset) THEN <<[name |-> "vidOffset", value |-> vidOffset]>> ELSE <<>>)
  \o (IF Truthy(timeOffset) THEN <<[name |-> "timeOffset", value |-> timeOffset]>> ELSE <<>>)

(***************************************************************************)
(* getContactsDetailedInfo and insertAddedDateOnDetailedContacts.          *)
(***************************************************************************)
\* contacts.map(c => c.vid)
VidsOf(cs) == [i \in 1..Len(cs) |-> cs[i].vid]

\* The elements of a set of integers in ascending order: Object.keys lists
\* integer-like keys in ascending numeric order.
RECURSIVE Ascending(_)
Ascending(S) ==
  IF S = {} THEN <<>>
  ELSE LET m == CHOOSE x \in S : \A y \in S : x <= y
       IN <<m>> \o Ascending(S \ {m})

\* Object.keys(res.data).map(key => res.data[key])
DetailedContactsOf(data) ==
  LET keys == Ascending(DOMAIN data)
  IN [i \in 1..Len(keys) |-> CrmContact(keys[i], data[keys[i]])]

\* contacts.find(c => c.vid === vid): the index of the first match, 0 if none.
FindVid(cs, vid) ==
  LET hits == {i \in 1..Len(cs) : cs[i].vid = vid}
  IN IF hits = {} THEN 0 ELSE CHOOSE i \in hits : \A j \in hits : i <= j

\* The same join by position instead of by vid.
insertAddedDate_byPosition(cs, detailedContacts, prev) ==
  IF Len(detailedContacts) > Len(cs)
  THEN [threw |-> TRUE, list |-> <<>>, contact |-> UndefinedContact]
  ELSE [threw |-> FALSE,
        list |-> [i \in 1..Len(detailedContacts) |->
                    [vid |-> detailedContacts[i].vid,
                     properties |-> detailedContacts[i].properties,
                     form_submissions |-> detailedContacts[i].form_submissions,
                     addedAt |-> cs[i].addedAt]],
        contact |-> IF detailedContacts = <<>> THEN prev ELSE cs[Len(detailedContacts)]]

\* insertAddedDateOnDetailedContacts, with the module-level contact it
\* leaves behind.  The map stops at the first detail without a summary:
\* contact is then undefined and contact.addedAt throws.
insertAddedDateOnDetailedContacts(cs, detailedContacts, prev) ==
  LET n == Len(detailedContacts)
      missing == {i \in 1..n : FindVid(cs, detailedContacts[i].vid) = 0}
  IN IF missing # {}
     THEN [threw |-> TRUE, list |-> <<>>, contact |-> UndefinedContact]
     ELSE [threw |-> FALSE,
           list |-> [i \in 1..n |->
                       [vid |-> detailedContacts[i].vid,
                        properties |-> detailedContacts[i].properties,
                        form_submissions |-> detailedContacts[i].form_submissions,
                        addedAt |-> cs[FindVid(cs, detailedContacts[i].vid)].addedAt]],
           contact |-> IF n = 0 THEN prev ELSE cs[FindVid(cs, detailedContacts[n].vid)]]

(***************************************************************************)
(* The stop conditions of loopContacts.                                    *)
(***************************************************************************)
\* ToNumber of a numeric parameter: null compares as 0.
ToNumber(n) == IF n = NULL THEN 0 ELSE n

\* findIndex over a set of matching positions: the 0-based index of the
\* first, -1 if there is none.
FirstIndex(hits) == IF hits = {} THEN -1 ELSE (CHOOSE i \in hits : \A j \in hits : i <= j) - 1

\* contactsDetailedInfo.findIndex(c => c.addedAt <= timeStop)
TimeStopIndex(info, timeStop) ==
  FirstIndex({i \in 1..Len(info) : info[i].addedAt <= ToNumber(timeStop)})

\* contactsDetailedInfo.findIndex(c => c.vid === vidStop)
VidStopIndex(info, vidStop) ==
  FirstIndex({i \in 1..Len(info) : info[i].vid = vidStop})

\* slice(0, end)
Slice(s, end) == SubSeq(s, 1, end)

\* The truncation with the precedence reversed: a time match decides first.
NewContacts_timeStopFirst(info, vidStop, timeStop) ==
  LET timeStopIndex == TimeStopIndex(info, timeStop)
      vidStopIndex == VidStopIndex(info, vidStop)
  IN IF timeStopIndex # -1 THEN Slice(info, timeStopIndex)
     ELSE IF vidStopIndex # -1 THEN Slice(info, vidStopIndex) ELSE info

\* newContacts as lines 355-367 leave it: the second assignment replaces
\* the first.
NewContacts(info, vidStop, timeStop) ==
  LET timeStopIndex == TimeStopIndex(info, timeStop)
      sliced == IF timeStopIndex # -1 THEN Slice(info, timeStopIndex) ELSE info
      vidStopIndex == VidStopIndex(info, vidStop)
  IN IF vidStopIndex # -1 THEN Slice(info, vidStopIndex) ELSE info

\* The condition of line 379 with a further conjunct: an empty page halts.
KeepLooping_haltingOnEmptyPage(data, info, vidStop, timeStop) ==
  /\ data.has_more
  /\ VidStopIndex(info, vidStop) = -1
  /\ TimeStopIndex(info, timeStop) = -1
  /\ info # <<>>

\* The condition without its time-stop conjunct.
KeepLooping_ignoringTimeStop(data, info, vidStop, timeStop) ==
  /\ data.has_more
  /\ VidStopIndex(info, vidStop) = -1

\* The condition of line 379.
KeepLooping(data, info, vidStop, timeStop) ==
  /\ data.has_more
  /\ VidStopIndex(info, vidStop) = -1
  /\ TimeStopIndex(info, timeStop) = -1

\* The accumulator replaced by the page instead of extended by it.
Concat_replacing(acc, newContacts) == newContacts

\* [...contacts, ...newContacts]
Concat(acc, newContacts) == acc \o newContacts

\* A catch that returns an empty array.
ReturnOnCatch_empty(acc) == Def(<<>>)

\* A catch that returns what was accumulated so far.
ReturnOnCatch_partial(acc) == Def(acc)

\* What the catch of loopContacts leaves the caller with: the error is
\* logged and the function falls off its end.
ReturnOnCatch(acc) == Undef

\* formatAndAppendToSheet: the data handed to sheets.appendToSheet.
SheetData(formattedContacts) ==
  [i \in 1..Len(formattedContacts) |-> formatContactForGoogleSheet(formattedContacts[i])]

\* Line 370: newContacts.map(c => formatContact(c))
FormattedContacts(newContacts) == [i \in 1..Len(newContacts) |-> formatContact(newContacts[i])]

\* A sink adapter that forwards nothing when it is given no row.
formatAndAppendToSheet_skippingEmpty(log, r, page, formattedContacts) ==
  IF formattedContacts = <<>> THEN log
  ELSE Append(log, [run |-> r, page |-> page, rows |-> formattedContacts,
                    data |-> SheetData(formattedContacts)])

\* formatAndAppendToSheet (lines 306-316), called at line 373 for a page of
\* a run: one call of sheets.appendToSheet, recorded with the rows the
\* function was given and the data it forwards.
formatAndAppendToSheet(log, r, page, formattedContacts) ==
  Append(log, [run |-> r, page |-> page, rows |-> formattedContacts,
               data |-> SheetData(formattedContacts)])

(***************************************************************************)
(* Initial states.                                                         *)
(***************************************************************************)
Frames(offsets, vidStops, timeStops) ==
  [vidOffset : offsets, timeOffset : offsets, vidStop : vidStops, timeStop : timeStops]

IdleFrame == [vidOffset |-> NULL, timeOffset |-> NULL, vidStop |-> NULL, timeStop |-> NULL]

\* The runs in act have been called with a frame of fs, each against a
\* listing of the given number of pages; nothing has run yet.
InitLoop(act, fs, pages) ==
  /\ active = act
  /\ upstreamPages = [r \in Runs |-> IF r \in act THEN pages ELSE 0]
  /\ pc = [r \in Runs |-> IF r \in act THEN "start" ELSE "idle"]
  /\ frame \in {f \in [Runs -> fs \cup {IdleFrame}] :
                  \A r \in Runs : IF r \in act THEN f[r] \in fs ELSE f[r] = IdleFrame}
  /\ contactsData = [r \in Runs |-> NoData]
  /\ detailReq = [r \in Runs |-> <<>>]
  /\ detailKeys = [r \in Runs |-> {}]
  /\ detailed = [r \in Runs |-> Undef]
  /\ contacts = [r \in Runs |-> <<>>]
  /\ result = [r \in Runs |-> Undef]
  /\ nreq = [r \in Runs |-> 0]
  /\ lastRequest = [r \in Runs |-> <<>>]
  /\ retainedLog = [r \in Runs |-> <<>>]
  /\ failed = [r \in Runs |-> "none"]
  /\ contact = UndefinedContact
  /\ appendLog = <<>>
  /\ delivered = <<>>

FormatIdle ==
  /\ fmtPc = "idle"
  /\ fmtContact = NoContact
  /\ fmtResult = EmptyMap

DealsIdle ==
  /\ dpc = "idle"
  /\ dealIds = <<>>
  /\ pipelines = <<>>
  /\ deals = <<>>
  /\ dealIdx = 0
  /\ dealsResult = Undef
  /\ dealsFailed = "none"
  /\ dealCalls = <<>>

Init ==
  /\ InitLoop({1}, Frames(CallerOffsets, StopVids, StopTimes), MaxPages)
  /\ DealsIdle
  /\ FormatIdle

(***************************************************************************)
(* loopContacts.                                                           *)
(***************************************************************************)
\* The run leaves through the catch of lines 395-397: every enclosing call
\* returns what its inner call returned.
Throw(r) ==
  /\ pc' = [pc EXCEPT ![r] = "done"]
  /\ result' = [result EXCEPT ![r] = ReturnOnCatch(contacts[r])]

\* Lines 337-340 and 111-122: the call enters getContacts, which issues the
\* listing request.
CallGetContacts(r) ==
  /\ r \in active
  /\ pc[r] = "start"
  /\ lastRequest' = [lastRequest EXCEPT ![r] = Pagination(frame[r].vidOffset, frame[r].timeOffset)]
  /\ nreq' = [nreq EXCEPT ![r] = 1]
  /\ pc' = [pc EXCEPT ![r] = "awaitList"]
  /\ UNCHANGED <<active, upstreamPages, frame, contactsData, detailReq, detailKeys, detailed, contacts, result,
                 retainedLog, failed, contact, appendLog, delivered, dealVars, fmtVars>>

\* The listing request fails: getContacts logs and returns undefined (lines
\* 125-127), and contactsData.contacts throws at line 342.
ListingFails(r) ==
  /\ pc[r] = "awaitList"
  /\ failed' = [failed EXCEPT ![r] = "listing"]
  /\ Throw(r)
  /\ UNCHANGED <<active, upstreamPages, frame, contactsData, detailReq, detailKeys, detailed, contacts, nreq,
                 lastRequest, retainedLog, contact, appendLog, delivered, dealVars, fmtVars>>

\* The listing request answers (line 124); loopContacts goes on to line 345
\* and getContactsDetailedInfo issues the batch request (lines 137-141).
ListingResponds(r) ==
  /\ pc[r] = "awaitList"
  /\ \E p \in PageContents, more \in BOOLEAN :
       /\ more => nreq[r] < upstreamPages[r]
       /\ contactsData' = [contactsData EXCEPT ![r] = PageData(p, more)]
       /\ detailReq' = [detailReq EXCEPT ![r] = VidsOf(p)]
  /\ pc' = [pc EXCEPT ![r] = "awaitDetail"]
  /\ UNCHANGED <<active, upstreamPages, frame, detailKeys, detailed, contacts, result, nreq, lastRequest,
                 retainedLog, failed, contact, appendLog, delivered, dealVars, fmtVars>>

\* The batch request fails: getContactsDetailedInfo logs and returns
\* undefined (lines 149-151).
DetailFails(r) ==
  /\ pc[r] = "awaitDetail"
  /\ detailed' = [detailed EXCEPT ![r] = Undef]
  /\ failed' = [failed EXCEPT ![r] = "detail"]
  /\ pc' = [pc EXCEPT ![r] = "enriched"]
  /\ UNCHANGED <<active, upstreamPages, frame, contactsData, detailReq, detailKeys, contacts, result, nreq,
                 lastRequest, retainedLog, contact, appendLog, delivered, dealVars, fmtVars>>

\* The batch request answers: lines 143-148, the join included.  A join
\* that throws is caught at line 149 and undefined is returned.
DetailResponds(r) ==
  /\ pc[r] = "awaitDetail"
  /\ \E data \in DetailResponses :
       LET j == insertAddedDateOnDetailedContacts(
                  contactsData[r].contacts, DetailedContactsOf(data), contact)
       IN /\ detailKeys' = [detailKeys EXCEPT ![r] = DOMAIN data]
          /\ contact' = j.contact
          /\ detailed' = [detailed EXCEPT ![r] = IF j.threw THEN Undef ELSE Def(j.list)]
          /\ failed' = [failed EXCEPT ![r] = IF j.threw THEN "join" ELSE @]
  /\ pc' = [pc EXCEPT ![r] = "enriched"]
  /\ UNCHANGED <<active, upstreamPages, frame, contactsData, detailReq, contacts, result, nreq,
                 lastRequest, retainedLog, appendLog, delivered, dealVars, fmtVars>>

\* getContactsDetailedInfo returned undefined: findIndex of line 350 throws.
EnrichmentMissing(r) ==
  /\ pc[r] = "enriched"
  /\ ~detailed[r].defined
  /\ Throw(r)
  /\ UNCHANGED <<active, upstreamPages, frame, contactsData, detailReq, detailKeys, detailed, contacts, nreq,
                 lastRequest, retainedLog, failed, contact, appendLog, delivered, dealVars, fmtVars>>

\* Lines 349-370 with a contact formatContact cannot format: the map of
\* line 370 throws before anything is appended.
FormattingFails(r) ==
  /\ pc[r] = "enriched"
  /\ detailed[r].defined
  /\ LET newContacts == NewContacts(detailed[r].list, frame[r].vidStop, frame[r].timeStop)
     IN \E i \in 1..Len(newContacts) : formatContactThrows(newContacts[i])
  /\ failed' = [failed EXCEPT ![r] = "format"]
  /\ Throw(r)
  /\ UNCHANGED <<active, upstreamPages, frame, contactsData, detailReq, detailKeys, detailed, contacts, nreq,
                 lastRequest, retainedLog, contact, appendLog, delivered, dealVars, fmtVars>>

\* Lines 349-394: truncate, format, hand the rows to the sink, accumulate,
\* and either recurse (which issues the next listing request at once) or
\* return the accumulator.  newContacts and formattedContacts are the
\* constants of lines 364 and 370, computed once.
ProcessPage(r) ==
  /\ pc[r] = "enriched"
  /\ detailed[r].defined
  /\ \E newContacts \in {NewContacts(detailed[r].list, frame[r].vidStop, frame[r].timeStop)} :
       /\ \A i \in 1..Len(newContacts) : ~formatContactThrows(newContacts[i])
       /\ \E formattedContacts \in {FormattedContacts(newContacts)} :
            /\ appendLog' = formatAndAppendToSheet(appendLog, r, nreq[r], formattedContacts)
            /\ contacts' = [contacts EXCEPT ![r] = Concat(contacts[r], newContacts)]
            /\ retainedLog' = [retainedLog EXCEPT ![r] = Append(@, newContacts)]
            /\ IF KeepLooping(contactsData[r], detailed[r].list, frame[r].vidStop, frame[r].timeStop)
               THEN /\ frame' = [frame EXCEPT ![r].vidOffset = contactsData[r].vid_offset,
                                              ![r].timeOffset = contactsData[r].time_offset]
                    /\ lastRequest' = [lastRequest EXCEPT ![r] =
                                         Pagination(contactsData[r].vid_offset, contactsData[r].time_offset)]
                    /\ nreq' = [nreq EXCEPT ![r] = @ + 1]
                    /\ pc' = [pc EXCEPT ![r] = "awaitList"]
                    /\ UNCHANGED result
               ELSE /\ pc' = [pc EXCEPT ![r] = "done"]
                    /\ result' = [result EXCEPT ![r] = Def(Concat(contacts[r], newContacts))]
                    /\ UNCHANGED <<frame, lastRequest, nreq>>
  /\ UNCHANGED <<active, upstreamPages, contactsData, detailReq, detailKeys, detailed, failed, contact, delivered, dealVars, fmtVars>>

\* A request sheets.appendToSheet issued completes.  formatAndAppendToSheet
\* neither awaits nor returns it (lines 311-315), so the completions are in
\* no order the loop controls.
AppendCompletes ==
  /\ \E i \in 1..Len(appendLog) :
       /\ \A k \in 1..Len(delivered) : delivered[k] # i
       /\ delivered' = Append(delivered, i)
  /\ UNCHANGED <<active, upstreamPages, pc, frame, contactsData, detailReq, detailKeys, detailed, contacts, result,
                 nreq, lastRequest, retainedLog, failed, contact, appendLog, dealVars, fmtVars>>

LoopStep ==
  \E r \in Runs :
    \/ CallGetContacts(r)
    \/ ListingFails(r)
    \/ ListingResponds(r)
    \/ DetailFails(r)
    \/ DetailResponds(r)
    \/ EnrichmentMissing(r)
    \/ FormattingFails(r)
    \/ ProcessPage(r)

(***************************************************************************)
(* getDealsFromContact.  The catalog and the deals of the upstream CRM.    *)
(***************************************************************************)
DealIdSet == 1..MaxDeals
PipelineIds == {"default", "sales"}
StageIds == {"open", "won"}

Stage(sid) == [stageId |-> sid]
Pipeline(pid, stages) == [pipelineId |-> pid, stages |-> stages]

\* What find() gives when nothing matches.
UndefinedStage == Stage(Undefined)
UndefinedPipeline == Pipeline(Undefined, <<>>)

\* The stage lists a pipeline may have, and the catalogs the pipelines
\* endpoint may return.
StageLists == {<<>>, <<Stage("open")>>, <<Stage("open"), Stage("won")>>}

Catalogs ==
  {<<>>}
  \cup {<<Pipeline("default", st)>> : st \in StageLists}
  \cup {<<Pipeline("default", st), Pipeline("sales", <<Stage("won")>>)>> : st \in StageLists}

\* The association lookup's results: distinct deal ids, in any order.
DealIdSeqs ==
  {q \in SeqsOver(DealIdSet, MaxDeals) : \A i, j \in 1..Len(q) : i # j => q[i] # q[j]}

\* The deal the deals endpoint returns for an id.
RawDeal(dealId, pid, sid) ==
  [dealId |-> dealId,
   properties |-> [pipeline |-> [value |-> pid], dealstage |-> [value |-> sid]],
   pipeline |-> UndefinedPipeline,
   stage |-> UndefinedStage]

\* pipelines.find(p => p.pipelineId === deal.properties.pipeline.value)
FindPipeline(catalog, deal) ==
  LET hits == {i \in 1..Len(catalog) : catalog[i].pipelineId = deal.properties.pipeline.value}
  IN IF hits = {} THEN UndefinedPipeline
     ELSE catalog[CHOOSE i \in hits : \A j \in hits : i <= j]

\* deal.pipeline.stages.find(s => s.stageId === deal.properties.dealstage.value)
FindStage(pipeline, deal) ==
  LET hits == {i \in 1..Len(pipeline.stages) :
                 pipeline.stages[i].stageId = deal.properties.dealstage.value}
  IN IF hits = {} THEN UndefinedStage
     ELSE pipeline.stages[CHOOSE i \in hits : \A j \in hits : i <= j]

\* deals.push(deal)
Push(ds, deal) == Append(ds, deal)

InitDeals ==
  /\ InitLoop({}, {IdleFrame}, 0)
  /\ FormatIdle
  /\ dpc = "start"
  /\ dealIds = <<>>
  /\ pipelines = <<>>
  /\ deals = <<>>
  /\ dealIdx = 0
  /\ dealsResult = Undef
  /\ dealsFailed = "none"
  /\ dealCalls = <<>>

\* getDeal with the catalog fetched again for the deal.
IssueGetDeal_refetchingCatalog(calls, dealId) ==
  calls \o << [fn |-> "getAllPipelines", arg |-> 0], [fn |-> "getDeal", arg |-> dealId] >>

\* Line 68: getDeal issues the request for the deal (line 42).
IssueGetDeal(calls, dealId) == Append(calls, [fn |-> "getDeal", arg |-> dealId])

\* A catch that returns the deals resolved so far.
DealsThrow_partial(step) ==
  /\ dpc' = "done"
  /\ dealsResult' = Def(deals)
  /\ dealsFailed' = step

\* The catch of lines 84-86: the error is logged, undefined is returned.
DealsThrow(step) ==
  /\ dpc' = "done"
  /\ dealsResult' = Undef
  /\ dealsFailed' = step

\* Line 58: the association lookup is issued (line 27).
CallGetDealIds ==
  /\ dpc = "start"
  /\ dealCalls' = Append(dealCalls, [fn |-> "getDealIdsFromContact", arg |-> 0])
  /\ dpc' = "awaitIds"
  /\ UNCHANGED <<dealIds, pipelines, deals, dealIdx, dealsResult, dealsFailed, loopVars, fmtVars>>

\* The lookup fails: getDealIdsFromContact returns undefined (lines 31-33)
\* and .results throws at line 58.
DealIdsFail ==
  /\ dpc = "awaitIds"
  /\ DealsThrow("associations")
  /\ UNCHANGED <<dealIds, pipelines, deals, dealIdx, dealCalls, loopVars, fmtVars>>

\* The lookup answers; line 61 issues the catalog request.
DealIdsRespond ==
  /\ dpc = "awaitIds"
  /\ \E ids \in DealIdSeqs : dealIds' = ids
  /\ dealCalls' = Append(dealCalls, [fn |-> "getAllPipelines", arg |-> 0])
  /\ dpc' = "awaitPipelines"
  /\ UNCHANGED <<pipelines, deals, dealIdx, dealsResult, dealsFailed, loopVars, fmtVars>>

\* The catalog request fails: getAllPipelines returns undefined (lines
\* 98-100) and .results throws at line 61.
PipelinesFail ==
  /\ dpc = "awaitPipelines"
  /\ DealsThrow("pipelines")
  /\ UNCHANGED <<dealIds, pipelines, deals, dealIdx, dealCalls, loopVars, fmtVars>>

\* The catalog answers; lines 64-68: the loop starts and issues the first
\* getDeal, or returns the empty array when there is no deal id.
PipelinesRespond ==
  /\ dpc = "awaitPipelines"
  /\ \E catalog \in Catalogs : pipelines' = catalog
  /\ deals' = <<>>
  /\ IF dealIds = <<>>
     THEN /\ dpc' = "done"
          /\ dealsResult' = Def(<<>>)
          /\ UNCHANGED <<dealIdx, dealCalls>>
     ELSE /\ dealIdx' = 1
          /\ dealCalls' = IssueGetDeal(dealCalls, dealIds[1])
          /\ dpc' = "awaitDeal"
          /\ UNCHANGED dealsResult
  /\ UNCHANGED <<dealIds, dealsFailed, loopVars, fmtVars>>

\* getDeal fails and returns undefined (lines 46-48): line 71 throws on it.
DealFails ==
  /\ dpc = "awaitDeal"
  /\ DealsThrow("deal")
  /\ UNCHANGED <<dealIds, pipelines, deals, dealIdx, dealCalls, loopVars, fmtVars>>

\* getDeal answers with a deal whose pipeline is not in the catalog:
\* deal.pipeline is undefined and deal.pipeline.stages throws at line 76.
DealPipelineMissing ==
  /\ dpc = "awaitDeal"
  /\ \E pid \in PipelineIds, sid \in StageIds :
       FindPipeline(pipelines, RawDeal(dealIds[dealIdx], pid, sid)) = UndefinedPipeline
  /\ DealsThrow("pipeline join")
  /\ UNCHANGED <<dealIds, pipelines, deals, dealIdx, dealCalls, loopVars, fmtVars>>

\* getDeal answers with a deal of a known pipeline: lines 71-80, then the
\* next iteration's getDeal or the return of line 83.
DealResponds ==
  /\ dpc = "awaitDeal"
  /\ \E pid \in PipelineIds, sid \in StageIds :
       LET raw == RawDeal(dealIds[dealIdx], pid, sid)
           pipeline == FindPipeline(pipelines, raw)
           stage == FindStage(pipeline, raw)
           deal == [raw EXCEPT !.pipeline = pipeline, !.stage = stage]
       IN /\ pipeline # UndefinedPipeline
          /\ deals' = Push(deals, deal)
          /\ IF dealIdx < Len(dealIds)
             THEN /\ dealIdx' = dealIdx + 1
                  /\ dealCalls' = IssueGetDeal(dealCalls, dealIds[dealIdx + 1])
                  /\ UNCHANGED <<dpc, dealsResult>>
             ELSE /\ dpc' = "done"
                  /\ dealsResult' = Def(Push(deals, deal))
                  /\ UNCHANGED <<dealIdx, dealCalls>>
  /\ UNCHANGED <<dealIds, pipelines, dealsFailed, loopVars, fmtVars>>

(***************************************************************************)
(* Specifications.                                                         *)
(***************************************************************************)
\* One run of loopContacts, over every cursor and stop a caller may pass.
\* The loop never reads the outcome of an append, so the completions of the
\* sink's requests are left out here.
Next == LoopStep

Spec == Init /\ [][Next]_vars

\* One run, with the sink's requests completing in the background.
InitSink ==
  /\ InitLoop({1}, Frames({NULL}, {NULL}, StopTimes), MaxPages)
  /\ DealsIdle
  /\ FormatIdle

NextSink ==
  \/ LoopStep
  \/ AppendCompletes

SpecSink == InitSink /\ [][NextSink]_vars

\* Two runs of loopContacts started together, each against a one-page
\* listing, interleaving at their awaits.
InitConc ==
  /\ InitLoop(Runs, Frames({NULL}, {NULL}, {NULL}), 1)
  /\ DealsIdle
  /\ FormatIdle

SpecConc == InitConc /\ [][Next]_vars

\* One run from the start of the listing, every request of which is
\* eventually answered or fails, and every continuation of which is
\* eventually run: the listing holds MaxPages pages, so one of its pages
\* reports has-more false.
InitLive ==
  /\ InitLoop({1}, Frames({NULL}, StopVids, StopTimes), MaxPages)
  /\ DealsIdle
  /\ FormatIdle

SpecLive == InitLive /\ [][Next]_vars /\ WF_vars(Next)

\* One call of getDealsFromContact.
NextDeals ==
  \/ CallGetDealIds
  \/ DealIdsFail
  \/ DealIdsRespond
  \/ PipelinesFail
  \/ PipelinesRespond
  \/ DealFails
  \/ DealPipelineMissing
  \/ DealResponds

SpecDeals == InitDeals /\ [][NextDeals]_vars

\* formatContact called on one contact detail.
InitFormat ==
  /\ InitLoop({}, {IdleFrame}, 0)
  /\ DealsIdle
  /\ fmtPc = "call"
  /\ fmtContact \in ContactDetails
  /\ fmtResult = EmptyMap

\* Line 201 throws: the contact has no hs_analytics_source property.
FormatThrows ==
  /\ fmtPc = "call"
  /\ formatContactThrows(fmtContact)
  /\ fmtPc' = "threw"
  /\ UNCHANGED <<fmtContact, fmtResult, loopVars, dealVars>>

\* Lines 197-299 run to the return of line 298.
FormatReturns ==
  /\ fmtPc = "call"
  /\ ~formatContactThrows(fmtContact)
  /\ fmtResult' = formatContact(fmtContact)
  /\ fmtPc' = "returned"
  /\ UNCHANGED <<fmtContact, loopVars, dealVars>>

NextFormat ==
  \/ FormatThrows
  \/ FormatReturns

SpecFormat == InitFormat /\ [][NextFormat]_vars

(***************************************************************************)
(* Properties of loopContacts.                                             *)
(***************************************************************************)
\* The concatenation of a sequence of sequences.
RECURSIVE Flatten(_)
Flatten(ss) == IF ss = <<>> THEN <<>> ELSE Flatten(SubSeq(ss, 1, Len(ss) - 1)) \o ss[Len(ss)]

Last(q) == q[Len(q)]

\* The run's last enriched page has been sunk and accumulated, and
\* detailed[r] still holds it: the run waits for the next listing or its
\* details, or it has returned the accumulator.
PageSunk(r) ==
  /\ r \in active
  /\ detailed[r].defined
  /\ retainedLog[r] # <<>>
  /\ \/ pc[r] \in {"awaitList", "awaitDetail"} /\ nreq[r] > 1
     \/ pc[r] = "done" /\ result[r].defined

\* The stop matches of the claims, read off the enriched page.
VidMatches(r) == {i \in 1..Len(detailed[r].list) : detailed[r].list[i].vid = frame[r].vidStop}
TimeMatches(r) ==
  {i \in 1..Len(detailed[r].list) :
     frame[r].timeStop # NULL /\ detailed[r].list[i].addedAt <= frame[r].timeStop}
Least(S) == CHOOSE i \in S : \A j \in S : i <= j

\* The rows of the run's append calls, in call order.
AppendsOf(r) ==
  LET idx == {i \in 1..Len(appendLog) : appendLog[i].run = r}
      RECURSIVE Pick(_)
      Pick(i) == IF i > Len(appendLog) THEN <<>>
                 ELSE (IF i \in idx THEN <<appendLog[i].data>> ELSE <<>>) \o Pick(i + 1)
  IN Pick(1)

\* The rows formatContact and the sheet formatter give for a batch.
RowsOf(batch) == [i \in 1..Len(batch) |-> formatContactForGoogleSheet(formatContact(batch[i]))]

\* The page just sunk retained exactly batch: it is what was accumulated
\* and what was handed to the sink.
Retained(r, batch) ==
  /\ Last(retainedLog[r]) = batch
  /\ contacts[r] = Flatten(SubSeq(retainedLog[r], 1, Len(retainedLog[r]) - 1)) \o batch
  /\ Last(AppendsOf(r)) = RowsOf(batch)

\* C1: on a page where vidStop matches no record and some record has
\* addedAt <= timeStop, the batch sunk and accumulated is the records before
\* the first such record.
C1_TimeStopTruncates ==
  \A r \in Runs :
    (PageSunk(r) /\ VidMatches(r) = {} /\ TimeMatches(r) # {})
      => Retained(r, SubSeq(detailed[r].list, 1, Least(TimeMatches(r)) - 1))

\* C2: on a page where both vidStop and timeStop match, the retained batch
\* is the records before the first vid match, wherever the time match is.
C2_VidStopPrecedence ==
  \A r \in Runs :
    (PageSunk(r) /\ VidMatches(r) # {} /\ TimeMatches(r) # {})
      => Retained(r, SubSeq(detailed[r].list, 1, Least(VidMatches(r)) - 1))

\* A sunk page whose time match comes before its vid match, with a record
\* retained past the time match.
C2_Witness ==
  \E r \in Runs :
    /\ PageSunk(r)
    /\ VidMatches(r) # {}
    /\ TimeMatches(r) # {}
    /\ Least(TimeMatches(r)) < Least(VidMatches(r))
    /\ Len(Last(retainedLog[r])) = Least(VidMatches(r)) - 1

\* The step in which run r finishes a page without throwing.
PageProcessed(r) ==
  /\ pc[r] = "enriched"
  /\ Len(retainedLog'[r]) = Len(retainedLog[r]) + 1

\* C3: a page that was processed is followed by a further listing request
\* exactly when it reported has-more and matched neither stop; no other step
\* issues a listing request but the first of the run, and a run that has
\* returned issues none.
C3_FetchIffMoreAndNoStop ==
  [][\A r \in Runs :
       /\ PageProcessed(r) =>
            ((nreq'[r] = nreq[r] + 1 /\ pc'[r] = "awaitList")
               <=> (contactsData[r].has_more /\ VidMatches(r) = {} /\ TimeMatches(r) = {}))
       /\ (~PageProcessed(r) /\ nreq'[r] # nreq[r]) => (pc[r] = "start" /\ nreq[r] = 0)
       /\ PageProcessed(r) => nreq'[r] \in {nreq[r], nreq[r] + 1}
       /\ pc[r] = "done" => (pc'[r] = "done" /\ nreq'[r] = nreq[r])]_vars

\* A run that processed a page reporting has-more and halted on it because
\* of a time-stop match alone.
C3_Witness ==
  \E r \in Runs :
    /\ pc[r] = "done"
    /\ result[r].defined
    /\ contactsData[r].has_more
    /\ VidMatches(r) = {}
    /\ TimeMatches(r) # {}

\* C4: a run in which nothing failed returns the concatenation, in fetch
\* order, of the batches its pages retained; its elements are detail
\* records.
C4_ResultIsConcatenation ==
  \A r \in Runs :
    (pc[r] = "done" /\ failed[r] = "none") =>
      /\ result[r].defined
      /\ Len(retainedLog[r]) = nreq[r]
      /\ result[r].list = Flatten(retainedLog[r])
      /\ \A i \in 1..Len(result[r].list) :
           DOMAIN result[r].list[i] = {"vid", "properties", "form_submissions", "addedAt"}

\* A two-page run returning the records of both pages, the second page
\* truncated.
C4_Witness ==
  \E r \in Runs :
    /\ pc[r] = "done"
    /\ failed[r] = "none"
    /\ Len(retainedLog[r]) = 2
    /\ retainedLog[r][1] # <<>>
    /\ retainedLog[r][2] # <<>>
    /\ Len(retainedLog[r][2]) < Len(detailed[r].list)
    /\ Len(result[r].list) = Len(retainedLog[r][1]) + Len(retainedLog[r][2])

\* C5: when the listing request of page k+1 has been issued, the append of
\* page k has completed, and the appends complete in call order.
C5_AppendsCompleteBeforeNextFetch ==
  /\ \A i \in 1..Len(appendLog) :
       nreq[appendLog[i].run] > appendLog[i].page => \E k \in 1..Len(delivered) : delivered[k] = i
  /\ \A k \in 1..Len(delivered) - 1 : delivered[k] < delivered[k + 1]

\* C6: once a listing fetch, a detail fetch, a join or a formatting has
\* failed, the run fetches nothing more and returns no sequence.
C6_FailedRunReturnsNothing ==
  \A r \in Runs :
    failed[r] # "none" =>
      /\ pc[r] \in {"enriched", "done"}
      /\ pc[r] = "enriched" => ~detailed[r].defined
      /\ pc[r] = "done" => ~result[r].defined

\* A run that failed on its second page while formatting, after it had
\* accumulated records from the first.
C6_Witness ==
  \E r \in Runs :
    /\ pc[r] = "done"
    /\ failed[r] = "format"
    /\ nreq[r] = 2
    /\ contacts[r] # <<>>
    /\ ~result[r].defined

\* C9: the enriched records of a page are the details of the response in
\* key order, each carrying the addedAt of the page's summary of the same
\* vid, and a response holding a detail without a summary gives no
\* enriched page at all.
PageVids(r) == {contactsData[r].contacts[i].vid : i \in 1..Len(contactsData[r].contacts)}

C9_AddedAtFromOwnSummary ==
  \A r \in Runs :
    /\ (pc[r] = "enriched" /\ failed[r] # "detail") =>
         /\ detailed[r].defined <=> detailKeys[r] \subseteq PageVids(r)
         /\ detailed[r].defined => Len(detailed[r].list) = Cardinality(detailKeys[r])
    /\ (pc[r] \in {"enriched", "awaitList", "done"} /\ detailed[r].defined) =>
         \A i \in 1..Len(detailed[r].list) :
           /\ detailed[r].list[i].vid \in detailKeys[r]
           /\ \E j \in 1..Len(contactsData[r].contacts) :
                /\ contactsData[r].contacts[j].vid = detailed[r].list[i].vid
                /\ contactsData[r].contacts[j].addedAt = detailed[r].list[i].addedAt

\* Two runs hold enriched pages at once, the same vid carrying a different
\* addedAt in each, with the module-level contact left by one of them.
C9_Witness ==
  /\ pc[1] = "enriched"
  /\ pc[2] = "enriched"
  /\ detailed[1].defined
  /\ detailed[2].defined
  /\ \E i \in 1..Len(detailed[1].list), j \in 1..Len(detailed[2].list) :
       /\ detailed[1].list[i].vid = detailed[2].list[j].vid
       /\ detailed[1].list[i].addedAt # detailed[2].list[j].addedAt
       /\ contact.vid = detailed[1].list[i].vid
       /\ contact.addedAt = detailed[2].list[j].addedAt

\* The pagination fields that send every non-null component unchanged and
\* leave out a null one.
Verbatim(vidOffset, timeOffset) ==
  (IF vidOffset # NULL THEN <<[name |-> "vidOffset", value |-> vidOffset]>> ELSE <<>>)
  \o (IF timeOffset # NULL THEN <<[name |-> "timeOffset", value |-> timeOffset]>> ELSE <<>>)

\* C10: the first listing request carries the caller's cursor and every
\* later one the pair the preceding page returned, each non-null component
\* sent unchanged.
C10_CursorSentVerbatim ==
  \A r \in Runs :
    pc[r] = "awaitList" =>
      IF nreq[r] = 1
      THEN lastRequest[r] = Verbatim(frame[r].vidOffset, frame[r].timeOffset)
      ELSE lastRequest[r] = Verbatim(contactsData[r].vid_offset, contactsData[r].time_offset)

(***************************************************************************)
(* Properties of getDealsFromContact.                                      *)
(***************************************************************************)
\* The deal's references resolve in the catalog.
ResolvesInCatalog(deal) ==
  \E i \in 1..Len(pipelines) :
    /\ pipelines[i].pipelineId = deal.properties.pipeline.value
    /\ \E k \in 1..Len(pipelines[i].stages) :
         pipelines[i].stages[k].stageId = deal.properties.dealstage.value

\* C7: a resolution that returns a sequence returns only deals whose
\* pipeline and stage references are in the catalog, with both attached.
C7_UnresolvedDealFails ==
  (dpc = "done" /\ dealsResult.defined) =>
    \A i \in 1..Len(dealsResult.list) :
      /\ ResolvesInCatalog(dealsResult.list[i])
      /\ dealsResult.list[i].pipeline # UndefinedPipeline
      /\ dealsResult.list[i].stage # UndefinedStage

\* C8: a resolution that returns a sequence returns one deal per associated
\* id, in association order, each with the pipeline and the stage its
\* references name.
C8_DealsInAssociationOrder ==
  (dpc = "done" /\ dealsResult.defined) =>
    /\ Len(dealsResult.list) = Len(dealIds)
    /\ \A i \in 1..Len(dealsResult.list) :
         /\ dealsResult.list[i].dealId = dealIds[i]
         /\ dealsResult.list[i].pipeline.pipelineId = dealsResult.list[i].properties.pipeline.value
         /\ dealsResult.list[i].stage.stageId = dealsResult.list[i].properties.dealstage.value

(***************************************************************************)
(* Properties of formatContact.                                            *)
(***************************************************************************)
\* The contact's property of that name, an absent URL when it has none.
PropertyOf(c, name) == IF name \in DOMAIN c.properties THEN c.properties[name].value ELSE NoUrl

\* The page URL of the contact's first form submission.
FormPageOf(c) == IF c.form_submissions = << >> THEN NoUrl ELSE c.form_submissions[1].page_url

\* The candidate URLs in the order of the claims: first touch, last touch,
\* first referrer, last referrer, first form-submission page.
CandidatesOf(c) ==
  << PropertyOf(c, "hs_analytics_first_url"),
     PropertyOf(c, "hs_analytics_last_url"),
     PropertyOf(c, "hs_analytics_first_referrer"),
     PropertyOf(c, "hs_analytics_last_referrer"),
     FormPageOf(c) >>

HasEvent(c) == "first_conversion_event_name" \in DOMAIN c.properties

\* C11: a contact with no first-touch URL, no last-touch URL, no referrer,
\* no form-submission page URL and no first-conversion-event name is
\* formatted to a record whose keys are exactly id, hs_url and addedAt.
C11_MinimalRecordKeys ==
  (/\ fmtPc = "returned"
   /\ \A i \in 1..5 : CandidatesOf(fmtContact)[i] = NoUrl
   /\ ~HasEvent(fmtContact))
    => DOMAIN fmtResult = {"id", "hs_url", "addedAt"}

\* The candidates of the contact that are present and carry the parameter.
Carriers(c, name) ==
  {i \in 1..5 :
     /\ CandidatesOf(c)[i].kind = "url"
     /\ \E k \in 1..Len(CandidatesOf(c)[i].query) : CandidatesOf(c)[i].query[k].name = name}

Greatest(S) == CHOOSE i \in S : \A j \in S : j <= i

\* The parameter's value in the last present candidate that carries it.
Merged(c, name) ==
  IF Carriers(c, name) = {} THEN Undefined
  ELSE getURLParams(CandidatesOf(c)[Greatest(Carriers(c, name))])[name]

\* C12: every attribution field of the formatted record is the value its
\* parameter has in the last present candidate that carries it, in the order
\* first touch, last touch, first referrer, last referrer, form page; hsa_grp
\* falls back on ad_group; absent and unparseable candidates give nothing.
C12_LastCandidateWins ==
  fmtPc = "returned" =>
    /\ Get(fmtResult, "utm_source") = Merged(fmtContact, "utm_source")
    /\ Get(fmtResult, "utm_campaign") = Merged(fmtContact, "utm_campaign")
    /\ Get(fmtResult, "utm_content") = Merged(fmtContact, "utm_content")
    /\ Get(fmtResult, "hsa_grp") =
         IF Merged(fmtContact, "hsa_grp") \notin {Undefined, ""}
         THEN Merged(fmtContact, "hsa_grp")
         ELSE Merged(fmtContact, "ad_group")

\* A formatted contact whose first-touch URL and form page carry different
\* values of utm_source, with an absent and an unparseable candidate between
\* them: the form page's value is the one in the record.
C12_Witness ==
  /\ fmtPc = "returned"
  /\ Carriers(fmtContact, "utm_source") = {1, 5}
  /\ getURLParams(CandidatesOf(fmtContact)[1])["utm_source"] = "google"
  /\ CandidatesOf(fmtContact)[2] = NoUrl
  /\ CandidatesOf(fmtContact)[3] = BadUrl
  /\ fmtResult["utm_source"] = "facebook"
  /\ fmtResult["utm_content"] = "y"

\* The table label of the hostname of the contact's last-touch URL,
\* undefined when the hostname is not in the table or the URL is absent.
LabelOfLastUrl(c) ==
  LET lastUrl == PropertyOf(c, "hs_analytics_last_url")
  IN IF lastUrl.kind = "url" /\ lastUrl.host \in DOMAIN INSTITUTIONS
     THEN INSTITUTIONS[lastUrl.host]
     ELSE Undefined

\* C13: the institution of a formatted contact is the table label of the
\* hostname of its last-touch URL, and undefined when that hostname is not in
\* the table or the contact has no last-touch URL: it is a function of the
\* last-touch URL alone.
C13_InstitutionFromLastUrlHost ==
  fmtPc = "returned" => Get(fmtResult, "institution") = LabelOfLastUrl(fmtContact)

\* C14: the formatted record has an ad key exactly when the resolved source
\* is "linkedin" and the contact has a first-conversion-event name, and ad
\* is then that property's value.
C14_AdIffLinkedinWithEvent ==
  fmtPc = "returned" =>
    /\ "ad" \in DOMAIN fmtResult
         <=> (Merged(fmtContact, "utm_source") = "linkedin" /\ HasEvent(fmtContact))
    /\ "ad" \in DOMAIN fmtResult
         => fmtResult["ad"] = fmtContact.properties["first_conversion_event_name"].value

\* A contact whose first-touch URL says facebook and whose last referrer
\* says linkedin, with an event name: the record carries ad.
C14_Witness ==
  /\ fmtPc = "returned"
  /\ Carriers(fmtContact, "utm_source") = {1, 4}
  /\ getURLParams(CandidatesOf(fmtContact)[1])["utm_source"] = "facebook"
  /\ Merged(fmtContact, "utm_source") = "linkedin"
  /\ HasEvent(fmtContact)
  /\ "ad" \in DOMAIN fmtResult
  /\ fmtResult["ad"] = "form-a"

\* The merged utm_source is "facebook" and the first referrer is exactly
\* http://instagram.com/.
InstagramCase(c) ==
  /\ Merged(c, "utm_source") = "facebook"
  /\ PropertyOf(c, "hs_analytics_first_referrer") = INSTAGRAM_REFERRER

\* C18: when the merged utm_source is "facebook" and the first referrer is
\* exactly http://instagram.com/, the record's utm_source is still
\* "facebook" and the record has no ad key.
C18_InstagramOverrideIsLocal ==
  (fmtPc = "returned" /\ InstagramCase(fmtContact)) =>
    /\ fmtResult["utm_source"] = "facebook"
    /\ "ad" \notin DOMAIN fmtResult

\* The Instagram case on a contact that has a first-conversion-event name.
C18_Witness ==
  /\ fmtPc = "returned"
  /\ InstagramCase(fmtContact)
  /\ HasEvent(fmtContact)
  /\ "utm_source" \in DOMAIN fmtResult

(***************************************************************************)
(* Further properties of getDealsFromContact.                              *)
(***************************************************************************)
\* C15: once the fetch of a deal's details has failed, the resolution is
\* over and has returned no sequence, whatever it had resolved before.
C15_FailedDealAborts ==
  dealsFailed = "deal" => (dpc = "done" /\ ~dealsResult.defined)

\* The fetch of the second deal failed after the first deal had been
\* resolved and pushed.
C15_Witness ==
  /\ dealsFailed = "deal"
  /\ dpc = "done"
  /\ Len(deals) = 1
  /\ dealIdx = 2
  /\ ~dealsResult.defined

\* The positions of a function's calls in the call log.
CallsOf(fn) == {i \in 1..Len(dealCalls) : dealCalls[i].fn = fn}

\* C20: the catalog is requested at most once, as the second call, after
\* the association lookup has answered; it has been requested exactly once
\* when the resolution returns a sequence; and while it has not been
\* received no deal has been requested or joined.
C20_CatalogOnceBeforeDeals ==
  /\ CallsOf("getAllPipelines") \subseteq {2}
  /\ CallsOf("getDealIdsFromContact") \subseteq {1}
  /\ \A i \in CallsOf("getDeal") : i > 2 /\ CallsOf("getAllPipelines") = {2}
  /\ dpc \in {"start", "awaitIds"} => CallsOf("getAllPipelines") = {}
  /\ (dpc \in {"start", "awaitIds", "awaitPipelines"} \/ dealsFailed \in {"associations", "pipelines"})
       => (CallsOf("getDeal") = {} /\ deals = <<>>)
  /\ (dpc = "done" /\ dealsResult.defined) => CallsOf("getAllPipelines") = {2}
  /\ dealsFailed = "pipeline join" => CallsOf("getAllPipelines") = {2}

\* A resolution of two deals that returned both: one catalog request,
\* before the two deal requests.
C20_Witness ==
  /\ dpc = "done"
  /\ dealsResult.defined
  /\ Len(dealsResult.list) = 2
  /\ CallsOf("getAllPipelines") = {2}
  /\ CallsOf("getDeal") = {3, 4}

(***************************************************************************)
(* Further properties of loopContacts.                                     *)
(***************************************************************************)
\* The run's calls of the sink, in call order.
AppendCallsOf(r) ==
  LET RECURSIVE Pick(_)
      Pick(i) == IF i > Len(appendLog) THEN <<>>
                 ELSE (IF appendLog[i].run = r THEN <<appendLog[i]>> ELSE <<>>) \o Pick(i + 1)
  IN Pick(1)

\* The formatContact images of a batch, in its order.
ImagesOf(batch) == [i \in 1..Len(batch) |-> formatContact(batch[i])]

\* The run's k first sink calls are those of its k first pages: the k-th
\* was given the formatContact images of the batch page k added to the
\* accumulator, and forwards their sheet rows.
SunkPages(r, k) ==
  LET calls == AppendCallsOf(r)
  IN /\ Len(calls) = k
     /\ Len(retainedLog[r]) = k
     /\ \A j \in 1..k :
          LET images == ImagesOf(retainedLog[r][j])
          IN /\ calls[j].page = j
             /\ calls[j].rows = images
             /\ calls[j].data = SheetData(images)

\* The run halted on its last page: the page reported has-more false or
\* held a stop match.
HaltingPage(r) ==
  \/ ~contactsData[r].has_more
  \/ VidMatches(r) # {}
  \/ TimeMatches(r) # {}

\* C16: every run returns, the listing delivering in the end a page that
\* reports has-more false, holds a stop match or fails; and a run returns
\* only on a failure or on such a page: while the pages report has-more and
\* no stop matches, it goes on.
C16_RunTerminates ==
  /\ <>(\A r \in Runs : r \in active => pc[r] = "done")
  /\ [](\A r \in Runs : (pc[r] = "done" /\ failed[r] = "none") => HaltingPage(r))

\* A run that went through the whole listing and returned on its last
\* page, which reported has-more false and held no stop match.
C16_Witness ==
  \E r \in Runs :
    /\ pc[r] = "done"
    /\ failed[r] = "none"
    /\ nreq[r] = 2
    /\ ~contactsData[r].has_more
    /\ VidMatches(r) = {}
    /\ TimeMatches(r) = {}

\* C17: the sink has been called once for every page the run processed,
\* with the formatContact images of the records that page added to the
\* accumulator, in their order; the call of page k precedes the listing
\* request of page k+1, and the accumulator holds the batches of the pages.
C17_OneAppendPerPage ==
  \A r \in Runs :
    /\ contacts[r] = Flatten(retainedLog[r])
    /\ pc[r] \in {"awaitList", "awaitDetail", "enriched"} => SunkPages(r, nreq[r] - 1)
    /\ (pc[r] = "done" /\ failed[r] = "none") => SunkPages(r, nreq[r])

\* A run of two pages whose second page matched the vid stop at its first
\* record: the sink got the rows of the first page, then an empty append.
C17_Witness ==
  \E r \in Runs :
    /\ pc[r] = "done"
    /\ failed[r] = "none"
    /\ nreq[r] = 2
    /\ Len(AppendCallsOf(r)) = 2
    /\ AppendCallsOf(r)[1].rows # <<>>
    /\ AppendCallsOf(r)[2].rows = <<>>
    /\ detailed[r].list # <<>>
    /\ VidMatches(r) = {1}

\* C19: a run that failed has returned no sequence, while the sink holds the
\* calls of the pages before the failed one and none for the failed page.
C19_SinkKeepsEarlierPages ==
  \A r \in Runs :
    (pc[r] = "done" /\ failed[r] # "none") =>
      /\ ~result[r].defined
      /\ SunkPages(r, nreq[r] - 1)

\* A run whose second page could not be enriched, after the rows of its
\* first page had been handed to the sink.
C19_Witness ==
  \E r \in Runs :
    /\ pc[r] = "done"
    /\ failed[r] \in {"detail", "join"}
    /\ nreq[r] = 2
    /\ Len(AppendCallsOf(r)) = 1
    /\ AppendCallsOf(r)[1].rows # <<>>
    /\ ~result[r].defined

====
